---- MODULE Spec2Model ----
(***************************************************************************)
(* Bilingual content resolution of the blog: the two content collections   *)
(* blogPt / blogEn, the helpers of src/lib/posts.ts and the language       *)
(* switcher that consumes the resolver's result.                           *)
(*                                                                         *)
(* A JavaScript string is a sequence of one-character strings, so that     *)
(* String.replace(/\.md$/, ""), startsWith and template literals are       *)
(* computed character by character.  The values undefined and null are the *)
(* one-element sequences Undefined and Null, whose single element is no    *)
(* character, so they differ from every string (=== never holds between    *)
(* them and a string).                                                     *)
(***************************************************************************)
EXTENDS Integers, Sequences, FiniteSets, TLC

VARIABLES
  blogPt,   \* the entries of collection blogPt, in enumeration order
  blogEn,   \* the entries of collection blogEn, in enumeration order
  call,     \* the helper or page that ran last, with its arguments
  ret,      \* the string | null it returned (for a page: its translationSlug)
  listed,   \* the array getPublishedPosts or getStaticPaths returned
  href,     \* the href of the language switcher the page rendered
  inflight, \* the async helper calls of parallel page builds, by build slot
  hreflang  \* the rel="alternate" links in the head of the page rendered

vars == <<blogPt, blogEn, call, ret, listed, href, inflight, hreflang>>

Undefined == <<"undefined">>
Null == <<"null">>
\* the outcome of a call that ends by throwing a TypeError
TypeError == <<"TypeError">>

\* Lang = "pt" | "en"
Lang == {"pt", "en"}

-----------------------------------------------------------------------------
(* Bounds of the model *)

\* most markdown files of the site, both language folders together
MaxPosts == 2

\* identifiers of entries (file ids), with and without the markdown suffix
IdA == <<"a">>
IdAMd == <<"a", ".", "m", "d">>
IdB == <<"b">>
IdC == <<"c">>
SlugS == <<"s">>

Ids == {IdA, IdAMd, IdB, IdC}
TranslationIds == {Undefined, IdA, IdAMd, IdB}
Slugs == {Undefined, SlugS, IdA}

\* longest pathname tried on the path helpers
MaxPathLen == 4

\* the characters of the pathnames tried: "/", the letters of "en" and one
\* more letter
PathChar == {"/", "e", "n", "t"}

\* slugs that look like the English prefix
SlugEn == <<"e", "n">>
SlugEnSlashA == <<"e", "n", "/", "a">>
SlugEnt == <<"e", "n", "t">>
UrlSlugs == {Undefined, SlugEn, SlugEnSlashA, SlugEnt}

\* the optional third argument of getTranslationSlug
CallTranslationIds == {Undefined, IdA, IdAMd, IdB}

\* latest publication date of the listing model (dates are 1..MaxDate)
MaxDate == 2

\* collection entries as the helpers read them: id, data.slug, data.draft,
\* data.pubDate and, through the cast of getTranslationSlug,
\* (post.data as { translationId?: string }).translationId
EntriesOver(ids, slugs, translationIds, dates) ==
  [id : ids,
   data : [slug : slugs, translationId : translationIds,
           draft : BOOLEAN, pubDate : dates]]

RECURSIVE SeqsOver(_, _)
\* all sequences of exactly n entries of S
SeqsOver(S, n) ==
  IF n = 0 THEN {<<>>}
  ELSE {Append(s, e) : s \in SeqsOver(S, n - 1), e \in S}

UniqueIds(posts) ==
  \A i, j \in 1..Len(posts) : posts[i].id = posts[j].id => i = j

\* ... with pairwise different ids (the content source guarantees it)
Collections(S, n) == {s \in SeqsOver(S, n) : UniqueIds(s)}

\* the front matter of a markdown file, as written: draft is the YAML
\* scalar true or false, or the key is absent
FrontMatters(slugs, translationIds, dates) ==
  [slug : slugs, translationId : translationIds,
   draft : {"true", "false", "absent"}, pubDate : dates]

\* blogSchema parsing one file's front matter. z.object keeps the keys it
\* declares and strips every other key; translationId is not declared, so
\* reading it from the parsed data gives undefined. draft defaults to false.
blogSchema(frontMatter) ==
  [slug |-> frontMatter.slug,
   translationId |-> Undefined,
   draft |-> (frontMatter.draft = "true"),
   pubDate |-> frontMatter.pubDate]

-----------------------------------------------------------------------------
(* Strings *)

\* s.endsWith(".md")
EndsWithMd(s) ==
  /\ Len(s) >= 3
  /\ SubSeq(s, Len(s) - 2, Len(s)) = <<".", "m", "d">>

\* s.replace(/\.md$/, "")
StripMd(s) == IF EndsWithMd(s) THEN SubSeq(s, 1, Len(s) - 3) ELSE s

\* s?.replace(/\.md$/, "")
StripMdOpt(s) == IF s = Undefined THEN Undefined ELSE StripMd(s)

\* JavaScript truthiness of a string | undefined | null
Truthy(s) == s # Undefined /\ s # Null /\ s # <<>>

-----------------------------------------------------------------------------
(* src/lib/posts.ts *)

\* the two collection names exchanged: the source language's collection
CollectionNameExchanged(lang) == IF lang = "en" THEN "blogPt" ELSE "blogEn"

\* targetLang === "en" ? "blogEn" : "blogPt"
CollectionName(lang) == IF lang = "en" THEN "blogEn" ELSE "blogPt"

\* getCollection(name)
GetCollection(name) == IF name = "blogEn" THEN blogEn ELSE blogPt

\* the listing without its draft filter
PublishedUnfiltered(posts) == posts

\* getCollection(name, ({ data }) => !data.draft)
Published(posts) == SelectSeq(posts, LAMBDA post : ~post.data.draft)

\* the comparator with its operands swapped: a.pubDate - b.pubDate
InsertByPubDateAscending(sorted, e) ==
  LET k == Cardinality({i \in 1..Len(sorted) :
                          sorted[i].data.pubDate <= e.data.pubDate})
  IN SubSeq(sorted, 1, k) \o <<e>> \o SubSeq(sorted, k + 1, Len(sorted))

\* one step of the stable sort: e goes behind every entry that does not
\* compare after it (b.pubDate - a.pubDate <= 0)
InsertByPubDate(sorted, e) ==
  LET k == Cardinality({i \in 1..Len(sorted) :
                          sorted[i].data.pubDate >= e.data.pubDate})
  IN SubSeq(sorted, 1, k) \o <<e>> \o SubSeq(sorted, k + 1, Len(sorted))

RECURSIVE SortByPubDate(_)
\* posts.sort((a, b) => b.data.pubDate.valueOf() - a.data.pubDate.valueOf())
SortByPubDate(posts) ==
  IF posts = <<>> THEN <<>>
  ELSE InsertByPubDate(SortByPubDate(SubSeq(posts, 1, Len(posts) - 1)),
                       posts[Len(posts)])

\* the listing drawn from both collections, whatever the language
getPublishedPostsAllLanguages(lang) ==
  SortByPubDate(Published(GetCollection("blogPt") \o GetCollection("blogEn")))

getPublishedPosts(lang) ==
  SortByPubDate(Published(GetCollection(CollectionName(lang))))

\* the slug taken from the custom slug or the raw entry id, suffix kept
getPostSlugRawId(post) ==
  IF Truthy(post.data.slug) THEN post.data.slug ELSE post.id

getPostSlug(post) ==
  IF Truthy(post.data.slug) THEN post.data.slug ELSE StripMd(post.id)

\* the URL built from the entry id, ignoring a custom slug
getPostUrlFromId(post, lang) ==
  IF lang = "en" THEN <<"/", "e", "n", "/">> \o StripMd(post.id)
  ELSE <<"/">> \o StripMd(post.id)

getPostUrl(post, lang) ==
  IF lang = "en" THEN <<"/", "e", "n", "/">> \o getPostSlug(post)
  ELSE <<"/">> \o getPostSlug(post)

\* the entry's translationId compared with the source's translationId
\* instead of the source's id (undefined === undefined then matches)
MatchesTranslationIds(post, normalizedId, normalizedTranslationId) ==
  LET postId == StripMd(post.id)
      postTranslationId == post.data.translationId
  IN \/ postTranslationId = normalizedTranslationId
     \/ postId = normalizedTranslationId
     \/ postId = normalizedId

\* the entry's id compared as stored, without removing the suffix
MatchesRawPostId(post, normalizedId, normalizedTranslationId) ==
  LET postId == post.id
      postTranslationId == post.data.translationId
  IN \/ postTranslationId = normalizedId
     \/ postId = normalizedTranslationId
     \/ postId = normalizedId

\* the predicate handed to posts.find
Matches(post, normalizedId, normalizedTranslationId) ==
  LET postId == StripMd(post.id)
      postTranslationId == post.data.translationId
  IN \/ postTranslationId = normalizedId
     \/ postId = normalizedTranslationId
     \/ postId = normalizedId

\* findLast in place of find
FindLastIndex(posts, normalizedId, normalizedTranslationId) ==
  LET hits == {i \in 1..Len(posts) :
                 Matches(posts[i], normalizedId, normalizedTranslationId)}
  IN IF hits = {} THEN 0
     ELSE CHOOSE i \in hits : \A j \in hits : i >= j

\* a search that prefers explicit links: the first entry matching by
\* translationId, and the first entry of the same id only when there is none
FindIndexExplicitFirst(posts, normalizedId, normalizedTranslationId) ==
  LET linked == {i \in 1..Len(posts) :
                   \/ posts[i].data.translationId = normalizedId
                   \/ StripMd(posts[i].id) = normalizedTranslationId}
      hits == {i \in 1..Len(posts) :
                 Matches(posts[i], normalizedId, normalizedTranslationId)}
  IN IF linked # {} THEN CHOOSE i \in linked : \A j \in linked : i <= j
     ELSE IF hits = {} THEN 0
     ELSE CHOOSE i \in hits : \A j \in hits : i <= j

\* index of the entry Array.prototype.find returns, 0 when it returns undefined
FindIndex(posts, normalizedId, normalizedTranslationId) ==
  LET hits == {i \in 1..Len(posts) :
                 Matches(posts[i], normalizedId, normalizedTranslationId)}
  IN IF hits = {} THEN 0
     ELSE CHOOSE i \in hits : \A j \in hits : i <= j

\* the source's translationId used as passed, suffix and all
ResolveRawTranslationId(posts, currentId, currentTranslationId) ==
  LET normalizedId == StripMd(currentId)
      k == FindIndex(posts, normalizedId, currentTranslationId)
  IN IF k # 0 THEN StripMd(posts[k].id) ELSE Null

\* the matched entry's URL slug returned: getPostSlug(translatedPost)
ResolveToSlug(posts, currentId, currentTranslationId) ==
  LET normalizedId == StripMd(currentId)
      normalizedTranslationId == StripMdOpt(currentTranslationId)
      k == FindIndex(posts, normalizedId, normalizedTranslationId)
  IN IF k # 0 THEN getPostSlug(posts[k]) ELSE Null

\* currentTranslationId.replace without the optional chaining: the call
\* throws when the argument is omitted
ResolveUnguarded(posts, currentId, currentTranslationId) ==
  IF currentTranslationId = Undefined THEN TypeError
  ELSE LET normalizedId == StripMd(currentId)
           normalizedTranslationId == StripMd(currentTranslationId)
           k == FindIndex(posts, normalizedId, normalizedTranslationId)
       IN IF k # 0 THEN StripMd(posts[k].id) ELSE Null

\* the body of getTranslationSlug after the collection is loaded
Resolve(posts, currentId, currentTranslationId) ==
  LET normalizedId == StripMd(currentId)
      normalizedTranslationId == StripMdOpt(currentTranslationId)
      k == FindIndex(posts, normalizedId, normalizedTranslationId)
  IN IF k # 0 THEN StripMd(posts[k].id) ELSE Null

getTranslationSlug(currentId, targetLang, currentTranslationId) ==
  Resolve(GetCollection(CollectionName(targetLang)),
          currentId, currentTranslationId)

-----------------------------------------------------------------------------
(* src/i18n/index.ts *)

\* s.startsWith(p)
StartsWith(s, p) == Len(s) >= Len(p) /\ SubSeq(s, 1, Len(p)) = p

\* the prefix test without its closing slash: startsWith("/en")
getLangFromUrlByPrefix(pathname) ==
  IF StartsWith(pathname, <<"/", "e", "n">>) THEN "en" ELSE "pt"

getLangFromUrl(pathname) ==
  IF StartsWith(pathname, <<"/", "e", "n", "/">>) \/ pathname = <<"/", "e", "n">>
  THEN "en" ELSE "pt"

Search == <<"s", "e", "a", "r", "c", "h">>

\* the English branch without its test for the empty path
getLocalizedPathAlwaysPrefixed(path, lang) ==
  LET cleanPath == IF StartsWith(path, <<"/">>) THEN SubSeq(path, 2, Len(path))
                   ELSE path
  IN IF lang = "en" THEN <<"/", "e", "n", "/">> \o cleanPath
     ELSE <<"/">> \o cleanPath

getLocalizedPath(path, lang) ==
  LET cleanPath == IF StartsWith(path, <<"/">>) THEN SubSeq(path, 2, Len(path))
                   ELSE path
  IN IF lang = "en"
     THEN IF Truthy(cleanPath) THEN <<"/", "e", "n", "/">> \o cleanPath
          ELSE <<"/", "e", "n">>
     ELSE <<"/">> \o cleanPath

getHomePath(lang) == IF lang = "en" THEN <<"/", "e", "n">> ELSE <<"/">>

getSearchPath(lang) ==
  IF lang = "en" THEN <<"/", "e", "n", "/">> \o Search ELSE <<"/">> \o Search

-----------------------------------------------------------------------------
(* docs/plans/2026-01-08-i18n-implementation.md: post pages and switcher *)

\* entry.data.slug || entry.id, the params.slug of getStaticPaths
ParamsSlug(entry) ==
  IF Truthy(entry.data.slug) THEN entry.data.slug ELSE entry.id

\* the route of the post page: src/pages/[slug].astro, src/pages/en/[slug].astro
PagePath(entry, lang) ==
  IF lang = "en" THEN <<"/", "e", "n", "/">> \o ParamsSlug(entry)
  ELSE <<"/">> \o ParamsSlug(entry)

\* getStaticPaths with the neighbours exchanged: prevPost the next newer
\* entry, nextPost the next older one
getStaticPathsNewerAsPrev(lang) ==
  LET sortedEntries ==
        SortByPubDate(Published(GetCollection(CollectionName(lang))))
  IN [index \in 1..Len(sortedEntries) |->
        [params |-> [slug |-> ParamsSlug(sortedEntries[index])],
         props |->
           [entry |-> sortedEntries[index],
            prevPost |-> IF index > 1
                         THEN <<sortedEntries[index - 1]>> ELSE <<>>,
            nextPost |-> IF index < Len(sortedEntries)
                         THEN <<sortedEntries[index + 1]>> ELSE <<>>]]]

\* getStaticPaths of the post page of a language: one page per non-draft
\* entry, newest first; prevPost and nextPost are an entry or null, written
\* here as a sequence of one entry or none
getStaticPaths(lang) ==
  LET sortedEntries ==
        SortByPubDate(Published(GetCollection(CollectionName(lang))))
  IN [index \in 1..Len(sortedEntries) |->
        [params |-> [slug |-> ParamsSlug(sortedEntries[index])],
         props |->
           [entry |-> sortedEntries[index],
            prevPost |-> IF index < Len(sortedEntries)
                         THEN <<sortedEntries[index + 1]>> ELSE <<>>,
            nextPost |-> IF index > 1
                         THEN <<sortedEntries[index - 1]>> ELSE <<>>]]]

\* the paths getStaticPaths generates for a language: one per non-draft entry
StaticPaths(lang) ==
  LET posts == GetCollection(CollectionName(lang))
  IN {PagePath(posts[i], lang) : i \in {j \in 1..Len(posts) : ~posts[j].data.draft}}

\* currentPath.replace(/^\/en\/?/, "/")
ReplaceEnPrefix(p) ==
  IF StartsWith(p, <<"/", "e", "n", "/">>) THEN <<"/">> \o SubSeq(p, 5, Len(p))
  ELSE IF StartsWith(p, <<"/", "e", "n">>) THEN <<"/">> \o SubSeq(p, 4, Len(p))
  ELSE p

\* LanguageSwitcher.astro: the href of the rendered link
\* the switcher without its case for the Portuguese home page
AlternateUrlNoHomeCase(translationSlug, currentPath) ==
  LET currentLang == getLangFromUrl(currentPath)
      targetLang == IF currentLang = "pt" THEN "en" ELSE "pt"
  IN IF Truthy(translationSlug)
     THEN IF targetLang = "en" THEN <<"/", "e", "n", "/">> \o translationSlug
          ELSE <<"/">> \o translationSlug
     ELSE IF currentLang = "pt"
          THEN <<"/", "e", "n">> \o currentPath
          ELSE LET ptPath == ReplaceEnPrefix(currentPath)
               IN IF Truthy(ptPath) THEN ptPath ELSE <<"/">>

AlternateUrl(translationSlug, currentPath) ==
  LET currentLang == getLangFromUrl(currentPath)
      targetLang == IF currentLang = "pt" THEN "en" ELSE "pt"
  IN IF Truthy(translationSlug)
     THEN IF targetLang = "en"
          THEN <<"/", "e", "n", "/">> \o translationSlug
          ELSE <<"/">> \o translationSlug
     ELSE IF currentLang = "pt"
          THEN IF currentPath = <<"/">> \/ currentPath = <<>>
               THEN <<"/", "e", "n">>
               ELSE <<"/", "e", "n">> \o currentPath
          ELSE LET ptPath == ReplaceEnPrefix(currentPath)
               IN IF Truthy(ptPath) THEN ptPath ELSE <<"/">>

\* Astro.site.href, the site address with its closing slash
SiteBase == <<"https://miguelmachado.dev/">>

\* p.replace(/^\//, "")
StripLeadingSlash(p) ==
  IF StartsWith(p, <<"/">>) THEN SubSeq(p, 2, Len(p)) ELSE p

\* the address of the page itself, without a closing slash except for "/"
NormalizedHref(currentPath) ==
  IF currentPath # <<"/">> /\ Len(currentPath) > 0
     /\ currentPath[Len(currentPath)] = "/"
  THEN SiteBase \o StripLeadingSlash(SubSeq(currentPath, 1, Len(currentPath) - 1))
  ELSE SiteBase \o StripLeadingSlash(currentPath)

\* BaseLayout: ptUrl, "" when there is none
PtUrl(lang, currentPath, alternateSlug) ==
  IF alternateSlug # Undefined
  THEN IF lang = "pt" THEN SiteBase \o StripLeadingSlash(currentPath)
       ELSE IF Truthy(alternateSlug) THEN SiteBase \o alternateSlug ELSE <<>>
  ELSE IF lang = "pt" THEN NormalizedHref(currentPath)
       ELSE SiteBase \o StripLeadingSlash(ReplaceEnPrefix(currentPath))

\* BaseLayout: enUrl, "" when there is none
EnUrl(lang, currentPath, alternateSlug) ==
  IF alternateSlug # Undefined
  THEN IF lang = "pt"
       THEN IF Truthy(alternateSlug)
            THEN SiteBase \o <<"e", "n", "/">> \o alternateSlug ELSE <<>>
       ELSE SiteBase \o StripLeadingSlash(currentPath)
  ELSE IF lang = "pt"
       THEN SiteBase \o <<"e", "n">>
              \o (IF currentPath = <<"/">> THEN <<>> ELSE currentPath)
       ELSE NormalizedHref(currentPath)

\* the three link tags written whatever ptUrl and enUrl hold
HreflangUnguarded(lang, currentPath, alternateSlug) ==
  {[hreflang |-> "pt-BR", href |-> PtUrl(lang, currentPath, alternateSlug)],
   [hreflang |-> "en", href |-> EnUrl(lang, currentPath, alternateSlug)],
   [hreflang |-> "x-default", href |-> PtUrl(lang, currentPath, alternateSlug)]}

\* the link tags BaseLayout writes: {ptUrl && ...}, {enUrl && ...}
Hreflang(lang, currentPath, alternateSlug) ==
  LET ptUrl == PtUrl(lang, currentPath, alternateSlug)
      enUrl == EnUrl(lang, currentPath, alternateSlug)
  IN (IF Truthy(ptUrl)
      THEN {[hreflang |-> "pt-BR", href |-> ptUrl],
            [hreflang |-> "x-default", href |-> ptUrl]}
      ELSE {})
     \cup (IF Truthy(enUrl) THEN {[hreflang |-> "en", href |-> enUrl]} ELSE {})

-----------------------------------------------------------------------------
(* State machine *)

\* the page builds that run side by side
Slots == {1, 2}

\* a build slot with no helper call in flight
NoCall == [pc |-> "idle", fn |-> "none", lang |-> "none", currentId |-> Null,
           currentTranslationId |-> Null, ret |-> Null, listed |-> <<>>]

\* no helper is executing: JavaScript runs one call to completion at a time
Idle == call.fn = "none"

InitWith(S) ==
  /\ \E n \in 0..MaxPosts : \E m \in 0..(MaxPosts - n) :
       /\ blogPt \in Collections(S, n)
       /\ blogEn \in Collections(S, m)
  /\ call = [fn |-> "none"]
  /\ ret = Null
  /\ listed = <<>>
  /\ href = Null
  /\ inflight = [c \in Slots |-> NoCall]
  /\ hreflang = {}

\* the resolver reads neither slug nor pubDate: no custom slug, one date
Init == InitWith(EntriesOver(Ids, {Undefined}, TranslationIds, {1}))

\* the call with ids normalized in place: posts.forEach(p => p.id = ...)
\* before the search, written through to the loaded collection
CallGetTranslationSlugInPlace ==
  /\ Idle
  /\ \E currentId \in Ids, targetLang \in Lang,
        currentTranslationId \in CallTranslationIds :
       LET posts == GetCollection(CollectionName(targetLang))
           normalized == [i \in 1..Len(posts) |->
                            [posts[i] EXCEPT !.id = StripMd(@)]]
       IN /\ call' = [fn |-> "getTranslationSlug", currentId |-> currentId,
                      targetLang |-> targetLang,
                      currentTranslationId |-> currentTranslationId]
          /\ ret' = getTranslationSlug(currentId, targetLang, currentTranslationId)
          /\ IF targetLang = "en"
             THEN blogEn' = normalized /\ blogPt' = blogPt
             ELSE blogPt' = normalized /\ blogEn' = blogEn
  /\ UNCHANGED <<listed, href, inflight, hreflang>>

CallGetTranslationSlug ==
  /\ Idle
  /\ \E currentId \in Ids, targetLang \in Lang,
        currentTranslationId \in CallTranslationIds :
       /\ call' = [fn |-> "getTranslationSlug", currentId |-> currentId,
                   targetLang |-> targetLang,
                   currentTranslationId |-> currentTranslationId]
       /\ ret' = getTranslationSlug(currentId, targetLang, currentTranslationId)
  /\ UNCHANGED <<blogPt, blogEn, listed, href, inflight, hreflang>>

CallGetPostSlug ==
  /\ Idle
  /\ \E lang \in Lang :
       \E i \in 1..Len(GetCollection(CollectionName(lang))) :
         LET post == GetCollection(CollectionName(lang))[i]
         IN /\ call' = [fn |-> "getPostSlug", post |-> post]
            /\ ret' = getPostSlug(post)
  /\ UNCHANGED <<blogPt, blogEn, listed, href, inflight, hreflang>>

CallGetPostUrl ==
  /\ Idle
  /\ \E lang \in Lang :
       \E i \in 1..Len(GetCollection(CollectionName(lang))) :
         LET post == GetCollection(CollectionName(lang))[i]
         IN /\ call' = [fn |-> "getPostUrl", post |-> post, lang |-> lang]
            /\ ret' = getPostUrl(post, lang)
  /\ UNCHANGED <<blogPt, blogEn, listed, href, inflight, hreflang>>

\* a post page is rendered (getStaticPaths makes one per non-draft entry): the
\* page looks up the counterpart with getTranslationSlug(entry.id, other
\* language), passing no translationId, and hands the result to the language
\* switcher, which reads the language from the page's own URL
RenderPostPage ==
  /\ Idle
  /\ \E lang \in Lang :
       \E i \in 1..Len(GetCollection(CollectionName(lang))) :
         LET entry == GetCollection(CollectionName(lang))[i]
             targetLang == IF lang = "pt" THEN "en" ELSE "pt"
             translationSlug == getTranslationSlug(entry.id, targetLang, Undefined)
             currentPath == PagePath(entry, lang)
         IN /\ ~entry.data.draft
            /\ call' = [fn |-> "RenderPostPage", lang |-> lang, entry |-> entry,
                        targetLang |-> targetLang, currentPath |-> currentPath]
            /\ ret' = translationSlug
            /\ href' = AlternateUrl(translationSlug, currentPath)
            /\ hreflang' = Hreflang(lang, currentPath, translationSlug)
  /\ UNCHANGED <<blogPt, blogEn, listed, inflight>>

\* the caller takes the returned value; the next call may start
Return ==
  /\ ~Idle
  /\ call' = [fn |-> "none"]
  /\ ret' = Null
  /\ listed' = <<>>
  /\ href' = Null
  /\ hreflang' = {}
  /\ UNCHANGED <<blogPt, blogEn, inflight>>

CallGetPublishedPosts ==
  /\ Idle
  /\ \E lang \in Lang :
       /\ call' = [fn |-> "getPublishedPosts", lang |-> lang]
       /\ listed' = getPublishedPosts(lang)
  /\ UNCHANGED <<blogPt, blogEn, ret, href, inflight, hreflang>>

Next == CallGetTranslationSlug \/ Return

Spec == Init /\ [][Next]_vars

\* the listing reads draft and pubDate and never the slug: dates vary
ListInit == InitWith(EntriesOver({IdA, IdAMd, IdB}, {Undefined},
                                {Undefined, IdA, IdAMd}, 1..MaxDate))

ListNext == CallGetPublishedPosts \/ Return

ListSpec == ListInit /\ [][ListNext]_vars

\* URLs and post pages read the custom slug: slugs vary
PageInit == InitWith(EntriesOver({IdA, IdAMd, IdB}, Slugs, {Undefined, IdA}, {1}))

PageNext ==
  \/ CallGetPostSlug
  \/ CallGetPostUrl
  \/ CallGetTranslationSlug
  \/ RenderPostPage
  \/ Return

PageSpec == PageInit /\ [][PageNext]_vars

\* two posts of one language beside a post of the other: published entries
\* without ".md", linked to "a" or not linked
LinkInit ==
  /\ \E n \in 0..(MaxPosts + 1) : \E m \in 0..(MaxPosts + 1 - n) :
       LET S == {e \in EntriesOver({IdA, IdB}, {Undefined}, {Undefined, IdA}, {1}) :
                   ~e.data.draft}
       IN /\ blogPt \in Collections(S, n)
          /\ blogEn \in Collections(S, m)
  /\ call = [fn |-> "none"]
  /\ ret = Null
  /\ listed = <<>>
  /\ href = Null
  /\ inflight = [c \in Slots |-> NoCall]
  /\ hreflang = {}

LinkNext == CallGetTranslationSlug \/ Return

LinkSpec == LinkInit /\ [][LinkNext]_vars

-----------------------------------------------------------------------------
(* Paths: the helpers of src/i18n/index.ts applied to pathnames *)

RECURSIVE PathsOfLen(_)
\* all pathnames of exactly n characters
PathsOfLen(n) ==
  IF n = 0 THEN {<<>>}
  ELSE {Append(p, c) : p \in PathsOfLen(n - 1), c \in PathChar}

Paths == UNION {PathsOfLen(n) : n \in 0..MaxPathLen}

UrlInit == InitWith(EntriesOver({IdA}, UrlSlugs, {Undefined}, {1}))

\* a page reads the language from the pathname it is served at: any
\* pathname, or the URL of a post of the snapshot
CallGetLangFromUrl ==
  /\ Idle
  /\ \E pathname \in Paths \cup
         UNION {{getPostUrl(GetCollection(CollectionName(lang))[i], lang) :
                   i \in 1..Len(GetCollection(CollectionName(lang)))} :
                lang \in Lang} :
       call' = [fn |-> "getLangFromUrl", pathname |-> pathname,
                detected |-> getLangFromUrl(pathname)]
  /\ UNCHANGED <<blogPt, blogEn, ret, listed, href, inflight, hreflang>>

CallGetLocalizedPath ==
  /\ Idle
  /\ \E path \in Paths \cup {Search, <<"/">> \o Search}, lang \in Lang :
       /\ call' = [fn |-> "getLocalizedPath", path |-> path, lang |-> lang]
       /\ ret' = getLocalizedPath(path, lang)
  /\ UNCHANGED <<blogPt, blogEn, listed, href, inflight, hreflang>>

CallGetHomePath ==
  /\ Idle
  /\ \E lang \in Lang :
       /\ call' = [fn |-> "getHomePath", lang |-> lang]
       /\ ret' = getHomePath(lang)
  /\ UNCHANGED <<blogPt, blogEn, listed, href, inflight, hreflang>>

CallGetSearchPath ==
  /\ Idle
  /\ \E lang \in Lang :
       /\ call' = [fn |-> "getSearchPath", lang |-> lang]
       /\ ret' = getSearchPath(lang)
  /\ UNCHANGED <<blogPt, blogEn, listed, href, inflight, hreflang>>

\* a static page (home, search) is rendered at currentPath: its layout and
\* its switcher get no translation slug and read the language from the path
RenderStaticPage ==
  /\ Idle
  /\ \E currentPath \in Paths \cup {<<"/">> \o Search,
                                     <<"/", "e", "n", "/">> \o Search} :
       /\ call' = [fn |-> "RenderStaticPage", currentPath |-> currentPath,
                   lang |-> getLangFromUrl(currentPath), cameFrom |-> Null]
       /\ href' = AlternateUrl(Undefined, currentPath)
       /\ hreflang' = Hreflang(getLangFromUrl(currentPath), currentPath, Undefined)
  /\ UNCHANGED <<blogPt, blogEn, ret, listed, inflight>>

\* the visitor follows the switcher's link: the page at href is rendered
FollowSwitcher ==
  /\ call.fn = "RenderStaticPage"
  /\ call.cameFrom = Null
  /\ call' = [fn |-> "RenderStaticPage", currentPath |-> href,
              lang |-> getLangFromUrl(href), cameFrom |-> call.currentPath]
  /\ href' = AlternateUrl(Undefined, href)
  /\ hreflang' = Hreflang(getLangFromUrl(href), href, Undefined)
  /\ UNCHANGED <<blogPt, blogEn, ret, listed, inflight>>

UrlNext ==
  \/ CallGetLangFromUrl
  \/ RenderStaticPage
  \/ FollowSwitcher
  \/ CallGetLocalizedPath
  \/ CallGetHomePath
  \/ CallGetSearchPath
  \/ Return

UrlSpec == UrlInit /\ [][UrlNext]_vars

\* the build asks a post page file for its pages
CallGetStaticPaths ==
  /\ Idle
  /\ \E lang \in Lang :
       /\ call' = [fn |-> "getStaticPaths", lang |-> lang]
       /\ listed' = getStaticPaths(lang)
  /\ UNCHANGED <<blogPt, blogEn, ret, href, inflight, hreflang>>

\* up to three posts of one language, so that a page can have both
\* neighbours: three ids, dates and draft flags vary, no slug and no link
NavInit ==
  /\ \E n \in 0..(MaxPosts + 1) : \E m \in 0..(MaxPosts + 1 - n) :
       LET S == EntriesOver({IdA, IdB, IdC}, {Undefined}, {Undefined},
                            1..MaxDate)
       IN /\ blogPt \in Collections(S, n)
          /\ blogEn \in Collections(S, m)
  /\ call = [fn |-> "none"]
  /\ ret = Null
  /\ listed = <<>>
  /\ href = Null
  /\ inflight = [c \in Slots |-> NoCall]
  /\ hreflang = {}

NavNext == CallGetStaticPaths \/ Return

NavSpec == NavInit /\ [][NavNext]_vars

-----------------------------------------------------------------------------
(* Content loading: the build reads the markdown files into the collections *)

\* nothing is loaded yet
LoadInit == InitWith({})

\* the glob loader reads one markdown file of a language folder, parses its
\* front matter with blogSchema and adds the entry to the collection
LoadEntry ==
  /\ Idle
  /\ Len(blogPt) + Len(blogEn) < MaxPosts
  /\ \E lang \in Lang, id \in {IdA, IdB},
        frontMatter \in FrontMatters(Slugs, {Undefined, IdA, IdB}, {1}) :
       LET posts == GetCollection(CollectionName(lang))
           entry == [id |-> id, data |-> blogSchema(frontMatter)]
       IN /\ \A i \in 1..Len(posts) : posts[i].id # id
          /\ call' = [fn |-> "glob", lang |-> lang, id |-> id,
                      frontMatter |-> frontMatter]
          /\ IF lang = "en"
             THEN blogEn' = Append(blogEn, entry) /\ blogPt' = blogPt
             ELSE blogPt' = Append(blogPt, entry) /\ blogEn' = blogEn
  /\ UNCHANGED <<ret, listed, href, inflight, hreflang>>

LoadNext ==
  \/ LoadEntry
  \/ CallGetTranslationSlug
  \/ CallGetPublishedPosts
  \/ Return

LoadSpec == LoadInit /\ [][LoadNext]_vars

-----------------------------------------------------------------------------
(* Interleaved async calls: each helper suspends once, at await getCollection *)

\* one helper reads the collection's enumeration order and the other sorts
\* by pubDate: a lookup of "a" can match entry "a" and an entry linking to
\* "a", and dates vary
AsyncInit == InitWith(EntriesOver({IdA, IdB}, {Undefined}, {Undefined, IdA},
                                  1..MaxDate))

\* getTranslationSlug is called and suspends at await getCollection
StartGetTranslationSlug(c) ==
  /\ inflight[c].pc = "idle"
  /\ \E currentId \in {IdA, IdB}, targetLang \in Lang :
       inflight' = [inflight EXCEPT ![c] =
                      [NoCall EXCEPT !.pc = "awaiting",
                                     !.fn = "getTranslationSlug",
                                     !.lang = targetLang,
                                     !.currentId = currentId,
                                     !.currentTranslationId = Undefined]]
  /\ UNCHANGED <<blogPt, blogEn, call, ret, listed, href, hreflang>>

\* getPublishedPosts is called and suspends at await getCollection
StartGetPublishedPosts(c) ==
  /\ inflight[c].pc = "idle"
  /\ \E lang \in Lang :
       inflight' = [inflight EXCEPT ![c] =
                      [NoCall EXCEPT !.pc = "awaiting",
                                     !.fn = "getPublishedPosts",
                                     !.lang = lang]]
  /\ UNCHANGED <<blogPt, blogEn, call, ret, listed, href, hreflang>>

\* the collection arrives: the search runs to the return without suspending
ResumeGetTranslationSlug(c) ==
  /\ inflight[c].pc = "awaiting"
  /\ inflight[c].fn = "getTranslationSlug"
  /\ inflight' = [inflight EXCEPT ![c].pc = "done",
                                  ![c].ret =
                     Resolve(GetCollection(CollectionName(inflight[c].lang)),
                             inflight[c].currentId,
                             inflight[c].currentTranslationId)]
  /\ UNCHANGED <<blogPt, blogEn, call, ret, listed, href, hreflang>>

\* the helper sorts the loaded collection itself, not a filtered copy, and
\* the collection is one array every call shares
ResumeGetPublishedPostsShared(c) ==
  /\ inflight[c].pc = "awaiting"
  /\ inflight[c].fn = "getPublishedPosts"
  /\ LET sorted == SortByPubDate(GetCollection(CollectionName(inflight[c].lang)))
     IN /\ inflight' = [inflight EXCEPT ![c].pc = "done",
                                        ![c].listed = Published(sorted)]
        /\ IF inflight[c].lang = "en"
           THEN blogEn' = sorted /\ blogPt' = blogPt
           ELSE blogPt' = sorted /\ blogEn' = blogEn
  /\ UNCHANGED <<call, ret, listed, href, hreflang>>

\* the filtered array arrives: it is a fresh array, sorted in place and
\* returned without suspending
ResumeGetPublishedPosts(c) ==
  /\ inflight[c].pc = "awaiting"
  /\ inflight[c].fn = "getPublishedPosts"
  /\ inflight' = [inflight EXCEPT ![c].pc = "done",
                                  ![c].listed =
                     SortByPubDate(Published(
                       GetCollection(CollectionName(inflight[c].lang))))]
  /\ UNCHANGED <<blogPt, blogEn, call, ret, listed, href, hreflang>>

\* the awaiting page takes the value
Settle(c) ==
  /\ inflight[c].pc = "done"
  /\ inflight' = [inflight EXCEPT ![c] = NoCall]
  /\ UNCHANGED <<blogPt, blogEn, call, ret, listed, href, hreflang>>

AsyncNext ==
  \E c \in Slots :
    \/ StartGetTranslationSlug(c)
    \/ StartGetPublishedPosts(c)
    \/ ResumeGetTranslationSlug(c)
    \/ ResumeGetPublishedPosts(c)
    \/ Settle(c)

AsyncSpec == AsyncInit /\ [][AsyncNext]_vars

-----------------------------------------------------------------------------
(* Properties of the resolver *)

\* a call of getTranslationSlug has returned
Resolved == call.fn = "getTranslationSlug"

\* the collection of a language, as the content source holds it
CollectionOf(lang) == IF lang = "en" THEN blogEn ELSE blogPt

\* the three matching rules of the resolver's contract for entry e, source id s
\* and source translationId t, ids taken without the markdown suffix
ForwardRule(e, s) == e.data.translationId = StripMd(s)
BackwardRule(e, t) == t # Undefined /\ StripMd(e.id) = StripMd(t)
SameIdRule(e, s) == StripMd(e.id) = StripMd(s)
AnyRule(e, s, t) == ForwardRule(e, s) \/ BackwardRule(e, t) \/ SameIdRule(e, s)

\* no entry enumerated before position i satisfies a rule
FirstCandidate(posts, i, s, t) ==
  \A j \in 1..(i - 1) : ~AnyRule(posts[j], s, t)

\* C1 as stated: whenever an entry e of the target collection (the only one
\* that does) carries translationId = s, getTranslationSlug(s, lang) returns
\* e's normalized id, wherever e stands in the collection.
C1_ForwardLinkAnySnapshot ==
  (Resolved /\ call.currentTranslationId = Undefined) =>
    \A i \in 1..Len(CollectionOf(call.targetLang)) :
      (/\ ForwardRule(CollectionOf(call.targetLang)[i], call.currentId)
       /\ \A j \in 1..Len(CollectionOf(call.targetLang)) :
            ForwardRule(CollectionOf(call.targetLang)[j], call.currentId)
              => j = i)
        => ret = StripMd(CollectionOf(call.targetLang)[i].id)

\* C1 amended: an entry e of the target collection with translationId = s is
\* the result of getTranslationSlug(s, lang), by its normalized id, when no
\* entry enumerated before e satisfies a matching rule.
C1_ForwardLinkFirstCandidate ==
  (Resolved /\ call.currentTranslationId = Undefined) =>
    \A i \in 1..Len(CollectionOf(call.targetLang)) :
      (/\ ForwardRule(CollectionOf(call.targetLang)[i], call.currentId)
       /\ FirstCandidate(CollectionOf(call.targetLang), i,
                         call.currentId, Undefined))
        => ret = StripMd(CollectionOf(call.targetLang)[i].id)

\* the forward link decides: the linked entry stands second, has another id
\* than the source, and is returned
C1_Witness ==
  /\ Resolved
  /\ call.currentTranslationId = Undefined
  /\ Len(CollectionOf(call.targetLang)) = 2
  /\ ForwardRule(CollectionOf(call.targetLang)[2], call.currentId)
  /\ ~SameIdRule(CollectionOf(call.targetLang)[2], call.currentId)
  /\ FirstCandidate(CollectionOf(call.targetLang), 2, call.currentId, Undefined)
  /\ ret = StripMd(CollectionOf(call.targetLang)[2].id)

\* C2 as stated: whenever the target collection holds an entry with id t,
\* getTranslationSlug(s, lang, t) returns t, wherever the entry stands.
C2_BackwardLinkAnySnapshot ==
  (Resolved /\ call.currentTranslationId # Undefined) =>
    \A i \in 1..Len(CollectionOf(call.targetLang)) :
      BackwardRule(CollectionOf(call.targetLang)[i], call.currentTranslationId)
        => ret = StripMd(call.currentTranslationId)

\* C2 amended: if the target collection holds an entry with id t and no entry
\* enumerated before it satisfies a matching rule, getTranslationSlug(s, lang,
\* t) returns t.
C2_BackwardLinkFirstCandidate ==
  (Resolved /\ call.currentTranslationId # Undefined) =>
    \A i \in 1..Len(CollectionOf(call.targetLang)) :
      (/\ BackwardRule(CollectionOf(call.targetLang)[i],
                       call.currentTranslationId)
       /\ FirstCandidate(CollectionOf(call.targetLang), i,
                         call.currentId, call.currentTranslationId))
        => ret = StripMd(call.currentTranslationId)

\* the backward link decides: the entry named by t stands second, matches
\* by no other rule, and t is returned
C2_Witness ==
  /\ Resolved
  /\ call.currentTranslationId # Undefined
  /\ Len(CollectionOf(call.targetLang)) = 2
  /\ BackwardRule(CollectionOf(call.targetLang)[2], call.currentTranslationId)
  /\ ~SameIdRule(CollectionOf(call.targetLang)[2], call.currentId)
  /\ ~ForwardRule(CollectionOf(call.targetLang)[2], call.currentId)
  /\ FirstCandidate(CollectionOf(call.targetLang), 2,
                    call.currentId, call.currentTranslationId)
  /\ ret = StripMd(call.currentTranslationId)

\* C3 as stated: for a source entry without translationId, whenever the target
\* collection holds an entry of the same id without translationId,
\* getTranslationSlug(id, lang) returns that id.
C3_SameIdAnySnapshot ==
  (Resolved /\ call.currentTranslationId = Undefined) =>
    \A i \in 1..Len(CollectionOf(call.targetLang)) :
      (/\ SameIdRule(CollectionOf(call.targetLang)[i], call.currentId)
       /\ CollectionOf(call.targetLang)[i].data.translationId = Undefined)
        => ret = StripMd(call.currentId)

\* C3 amended: ... getTranslationSlug(id, lang) returns that id when no entry
\* enumerated before the same-id entry carries translationId = id.
C3_SameIdFirstCandidate ==
  (Resolved /\ call.currentTranslationId = Undefined) =>
    \A i \in 1..Len(CollectionOf(call.targetLang)) :
      (/\ SameIdRule(CollectionOf(call.targetLang)[i], call.currentId)
       /\ CollectionOf(call.targetLang)[i].data.translationId = Undefined
       /\ \A j \in 1..(i - 1) :
            ~ForwardRule(CollectionOf(call.targetLang)[j], call.currentId))
        => ret = StripMd(call.currentId)

\* the same-id fallback decides: both collections hold the id, neither entry
\* has a translationId, and the id is returned
C3_Witness ==
  /\ Resolved
  /\ call.currentTranslationId = Undefined
  /\ ret = StripMd(call.currentId)
  /\ \E i \in 1..Len(CollectionOf(call.targetLang)) :
       /\ CollectionOf(call.targetLang)[i].id = call.currentId
       /\ CollectionOf(call.targetLang)[i].data.translationId = Undefined
  /\ \E src \in Lang \ {call.targetLang} :
       \E i \in 1..Len(CollectionOf(src)) :
         /\ CollectionOf(src)[i].id = call.currentId
         /\ CollectionOf(src)[i].data.translationId = Undefined

\* C4: when no entry of the target collection has translationId equal to the
\* source id, id equal to the source translationId or id equal to the source
\* id (identifiers compared without the markdown suffix), the result is null.
C4_NoMatchIsNull ==
  Resolved =>
    ((\A i \in 1..Len(CollectionOf(call.targetLang)) :
        LET e == CollectionOf(call.targetLang)[i]
        IN /\ StripMdOpt(e.data.translationId) # StripMd(call.currentId)
           /\ StripMd(e.id) # StripMdOpt(call.currentTranslationId)
           /\ StripMd(e.id) # StripMd(call.currentId))
     => ret = Null)

\* a miss over a populated target collection, source translationId given
C4_Witness ==
  /\ Resolved
  /\ call.currentTranslationId # Undefined
  /\ Len(CollectionOf(call.targetLang)) = 2
  /\ \A i \in 1..2 : ~AnyRule(CollectionOf(call.targetLang)[i],
                              call.currentId, call.currentTranslationId)
  /\ ret = Null

\* C5: getTranslationSlug never returns the id of a target-collection entry
\* whose draft flag is true.
C5_NeverResolvesDraft ==
  Resolved =>
    \A i \in 1..Len(CollectionOf(call.targetLang)) :
      CollectionOf(call.targetLang)[i].data.draft
        => ret # StripMd(CollectionOf(call.targetLang)[i].id)

\* the same identifier with the markdown suffix added or removed
ToggleMd(s) == IF EndsWithMd(s) THEN StripMd(s) ELSE s \o <<".", "m", "d">>

\* C7: the result of getTranslationSlug does not change when one identifier
\* it compares (the source id, the source translationId, one candidate's id or
\* one candidate's translationId) gains or loses the '.md' suffix.
C7_SuffixInsensitive ==
  Resolved =>
    LET posts == CollectionOf(call.targetLang)
        s == call.currentId
        t == call.currentTranslationId
    IN /\ Resolve(posts, ToggleMd(s), t) = ret
       /\ t # Undefined => Resolve(posts, s, ToggleMd(t)) = ret
       /\ \A i \in 1..Len(posts) :
            Resolve([posts EXCEPT ![i].id = ToggleMd(posts[i].id)], s, t) = ret
       /\ \A i \in 1..Len(posts) :
            posts[i].data.translationId # Undefined =>
              Resolve([posts EXCEPT ![i].data.translationId =
                                       ToggleMd(posts[i].data.translationId)],
                      s, t) = ret

\* C20: getTranslationSlug returns a non-null value exactly when some entry
\* of the target language's collection satisfies one of the three rules, and
\* the value is then the normalized id of such an entry of the target
\* collection, never an id taken from the source language's collection; when
\* the translationId argument is omitted the backward-link rule matches
\* nothing, so the value is the id of an entry matching by forward link or
\* by same id.
C20_SoundAndComplete ==
  Resolved =>
    LET posts == CollectionOf(call.targetLang)
        s == call.currentId
        t == call.currentTranslationId
    IN /\ ret # Null <=> \E i \in 1..Len(posts) : AnyRule(posts[i], s, t)
       /\ ret # Null =>
            \E i \in 1..Len(posts) :
              AnyRule(posts[i], s, t) /\ ret = StripMd(posts[i].id)
       /\ (t = Undefined /\ ret # Null) =>
            \E i \in 1..Len(posts) :
              /\ ForwardRule(posts[i], s) \/ SameIdRule(posts[i], s)
              /\ ret = StripMd(posts[i].id)

\* the source language's collection holds an entry of the looked-up id, the
\* target collection holds only an entry no rule matches: null is returned
C20_Witness ==
  /\ Resolved
  /\ call.currentTranslationId = Undefined
  /\ Len(CollectionOf(call.targetLang)) = 1
  /\ \E i \in 1..Len(CollectionOf(IF call.targetLang = "en" THEN "pt" ELSE "en")) :
       SameIdRule(CollectionOf(IF call.targetLang = "en" THEN "pt" ELSE "en")[i],
                  call.currentId)
  /\ ret = Null

\* C17: when more than one entry of the target collection satisfies a
\* matching rule, getTranslationSlug returns the id of the first of them in
\* enumeration order, whichever rule each satisfies: an earlier entry matching
\* only by same id is returned in preference to a later explicitly linked one.
C17_FirstMatchWins ==
  Resolved =>
    \A i, j \in 1..Len(CollectionOf(call.targetLang)) :
      (/\ i < j
       /\ AnyRule(CollectionOf(call.targetLang)[i], call.currentId,
                  call.currentTranslationId)
       /\ AnyRule(CollectionOf(call.targetLang)[j], call.currentId,
                  call.currentTranslationId)
       /\ \A k \in 1..(i - 1) :
            ~AnyRule(CollectionOf(call.targetLang)[k], call.currentId,
                     call.currentTranslationId))
        => /\ ret = StripMd(CollectionOf(call.targetLang)[i].id)
           /\ (StripMd(CollectionOf(call.targetLang)[j].id)
                 # StripMd(CollectionOf(call.targetLang)[i].id))
                => ret # StripMd(CollectionOf(call.targetLang)[j].id)

\* the first entry matches only by same id, the second is linked by its
\* translationId and has another id; the first entry's id is returned
C17_Witness ==
  /\ Resolved
  /\ Len(CollectionOf(call.targetLang)) = 2
  /\ SameIdRule(CollectionOf(call.targetLang)[1], call.currentId)
  /\ ~ForwardRule(CollectionOf(call.targetLang)[1], call.currentId)
  /\ ~BackwardRule(CollectionOf(call.targetLang)[1], call.currentTranslationId)
  /\ ForwardRule(CollectionOf(call.targetLang)[2], call.currentId)
  /\ ~SameIdRule(CollectionOf(call.targetLang)[2], call.currentId)
  /\ ret = StripMd(CollectionOf(call.targetLang)[1].id)

\* the characters of ids, translationIds and slugs
Char == {"a", "b", "c", "s", ".", "m", "d"}

\* v is a JavaScript string: not undefined, not null, not a thrown error
IsString(v) == \A i \in 1..Len(v) : v[i] \in Char

\* C13: for every source id, target language, optional translationId and
\* snapshot, getTranslationSlug completes with a string or with null and
\* never raises.
C13_StringOrNull ==
  Resolved => (ret = Null \/ IsString(ret))

\* a lookup without translationId in an empty target collection
C13_Witness ==
  /\ Resolved
  /\ CollectionOf(call.targetLang) = <<>>
  /\ call.currentTranslationId = Undefined
  /\ ret = Null

\* C14: a call of getTranslationSlug leaves both language collections
\* unchanged: the entries, their order and every field of every entry are the
\* same after the call as before.
C14_NoSideEffects ==
  [][call'.fn = "getTranslationSlug" => (blogPt' = blogPt /\ blogEn' = blogEn)]_vars

\* a call that found a counterpart while both collections hold entries
C14_Witness ==
  /\ Resolved
  /\ ret # Null
  /\ blogPt # <<>>
  /\ blogEn # <<>>

-----------------------------------------------------------------------------
(* Properties of the listing *)

Listed == call.fn = "getPublishedPosts"

\* C6: no entry with draft = true appears in the list getPublishedPosts(lang)
\* returns.
C6_NoDraftListed ==
  Listed => \A i \in 1..Len(listed) : ~listed[i].data.draft

\* a draft that carries a translation link stands beside a published entry
\* and only the published one is listed
C6_Witness ==
  /\ Listed
  /\ Len(CollectionOf(call.lang)) = 2
  /\ Len(listed) = 1
  /\ \E i \in 1..2 :
       /\ CollectionOf(call.lang)[i].data.draft
       /\ CollectionOf(call.lang)[i].data.translationId # Undefined

\* C16: the list getPublishedPosts(lang) returns is sorted by pubDate in
\* descending order: of two adjacent entries the earlier one has pubDate
\* greater than or equal to the later one.
C16_SortedDescending ==
  Listed =>
    \A i \in 1..(Len(listed) - 1) :
      listed[i].data.pubDate >= listed[i + 1].data.pubDate

\* a collection that holds the older post first is listed newest first
C16_Witness ==
  /\ Listed
  /\ Len(listed) = 2
  /\ CollectionOf(call.lang)[1].data.pubDate
       < CollectionOf(call.lang)[2].data.pubDate
  /\ listed[1] = CollectionOf(call.lang)[2]
  /\ listed[2] = CollectionOf(call.lang)[1]

-----------------------------------------------------------------------------
(* Properties of URLs and the language switcher *)

Rendered == call.fn = "RenderPostPage"

\* C8: when the page's translation resolves to target entry e, the switcher
\* links to getPostUrl(e, target language).
C8_SwitcherLinksCounterpartUrl ==
  Rendered =>
    \A i \in 1..Len(CollectionOf(call.targetLang)) :
      (/\ AnyRule(CollectionOf(call.targetLang)[i], call.entry.id, Undefined)
       /\ FirstCandidate(CollectionOf(call.targetLang), i,
                         call.entry.id, Undefined))
        => href =
             getPostUrl(CollectionOf(call.targetLang)[i], call.targetLang)

\* C9: on a post page whose translation lookup returned null, the switcher
\* links to the target language's home path or to a page that exists.
C9_MissLinksNoMissingPage ==
  (Rendered /\ ret = Null) =>
    \/ href = (IF call.targetLang = "en"
                           THEN <<"/", "e", "n">> ELSE <<"/">>)
    \/ href \in StaticPaths(call.targetLang)

\* C10: getPostUrl(post, "pt") is "/" + getPostSlug(post) and
\* getPostUrl(post, "en") is "/en/" + getPostSlug(post).
C10_UrlShape ==
  call.fn = "getPostUrl" =>
    /\ call.lang = "pt" => ret = <<"/">> \o getPostSlug(call.post)
    /\ call.lang = "en" => ret = <<"/", "e", "n", "/">> \o getPostSlug(call.post)

\* the URL of an English post with a custom slug
C10_Witness ==
  /\ call.fn = "getPostUrl"
  /\ call.lang = "en"
  /\ call.post.data.slug = SlugS
  /\ ret = <<"/", "e", "n", "/", "s">>

\* C18: the resolver returns the matched entry's normalized id, not its
\* custom slug: for a matched target entry e with a slug set, the result is
\* the normalized e.id whether or not e.slug differs from it.
C18_ReturnsIdNotSlug ==
  Resolved =>
    \A i \in 1..Len(CollectionOf(call.targetLang)) :
      (/\ AnyRule(CollectionOf(call.targetLang)[i], call.currentId,
                  call.currentTranslationId)
       /\ FirstCandidate(CollectionOf(call.targetLang), i, call.currentId,
                         call.currentTranslationId)
       /\ CollectionOf(call.targetLang)[i].data.slug # Undefined)
        => ret = StripMd(CollectionOf(call.targetLang)[i].id)

\* the matched entry "a.md" has the custom slug "s": "a" is returned
C18_Witness ==
  /\ Resolved
  /\ Len(CollectionOf(call.targetLang)) = 1
  /\ CollectionOf(call.targetLang)[1].id = IdAMd
  /\ CollectionOf(call.targetLang)[1].data.slug = SlugS
  /\ ret = IdA

-----------------------------------------------------------------------------
(* Properties of the slug *)

-----------------------------------------------------------------------------
(* Properties of interleaved calls *)

\* C15: when several getTranslationSlug and getPublishedPosts calls run
\* interleaved over the same snapshot, each call returns the result it
\* returns when run alone.
C15_InterleavedAsAlone ==
  \A c \in Slots :
    inflight[c].pc = "done" =>
      /\ inflight[c].fn = "getTranslationSlug" =>
           inflight[c].ret =
             getTranslationSlug(inflight[c].currentId, inflight[c].lang,
                                inflight[c].currentTranslationId)
      /\ inflight[c].fn = "getPublishedPosts" =>
           inflight[c].listed = getPublishedPosts(inflight[c].lang)

\* a lookup and a listing of the same collection have both run while the
\* other was in flight; the listing reordered its two entries, and the lookup
\* has two candidates, so that its result depends on the order it read
C15_Witness ==
  \E c, d \in Slots :
    /\ inflight[c].pc = "done"
    /\ inflight[c].fn = "getTranslationSlug"
    /\ inflight[c].ret # Null
    /\ inflight[d].pc = "done"
    /\ inflight[d].fn = "getPublishedPosts"
    /\ inflight[d].lang = inflight[c].lang
    /\ Len(inflight[d].listed) = 2
    /\ inflight[d].listed # CollectionOf(inflight[c].lang)
    /\ inflight[c].ret # StripMd(inflight[d].listed[1].id)

-----------------------------------------------------------------------------
(* Properties of content loading *)

\* C19: for every markdown entry whose front matter declares translationId,
\* the parsed entry data that getTranslationSlug reads carries that same
\* translationId: the collection schema does not drop it.
C19_SchemaKeepsTranslationId ==
  call.fn = "glob" =>
    LET posts == CollectionOf(call.lang)
    IN call.frontMatter.translationId # Undefined
         => posts[Len(posts)].data.translationId
              = call.frontMatter.translationId

OtherLang(lang) == IF lang = "en" THEN "pt" ELSE "en"

\* C23: getPublishedPosts(lang) returns exactly the entries of that
\* language's collection whose draft flag is false: every non-draft entry,
\* including one whose front matter omits draft, appears exactly once, and no
\* entry of the other language's collection appears.
C23_ListedExactlyPublished ==
  /\ Listed =>
       LET posts == CollectionOf(call.lang)
           published == {i \in 1..Len(posts) : ~posts[i].data.draft}
       IN /\ \A i \in published :
               Cardinality({k \in 1..Len(listed) : listed[k] = posts[i]}) = 1
          /\ \A k \in 1..Len(listed) :
               \E i \in published : posts[i] = listed[k]
          /\ Len(listed) = Cardinality(published)
  /\ (call.fn = "glob" /\ call.frontMatter.draft = "absent") =>
       LET posts == CollectionOf(call.lang)
       IN /\ ~posts[Len(posts)].data.draft
          /\ \E k \in 1..Len(getPublishedPosts(call.lang)) :
               getPublishedPosts(call.lang)[k] = posts[Len(posts)]

\* one language's only entry is listed while the other language holds a
\* published entry of another id
C23_Witness ==
  /\ Listed
  /\ Len(listed) = 1
  /\ Len(CollectionOf(OtherLang(call.lang))) = 1
  /\ ~CollectionOf(OtherLang(call.lang))[1].data.draft
  /\ CollectionOf(OtherLang(call.lang))[1].id # listed[1].id

-----------------------------------------------------------------------------
(* Properties of the translation relation *)

\* index in posts of the entry a lookup with entry e's own id and
\* translationId finds, 0 when it finds none
FoundFor(posts, e) ==
  FindIndex(posts, StripMd(e.id), StripMdOpt(e.data.translationId))

\* the call just made is the lookup of source entry e for its own values
CallIsFor(e) ==
  /\ call.currentId = e.id
  /\ call.currentTranslationId = e.data.translationId

\* C21: with ids unique within each collection, if resolving PT entry A
\* (with A's own id and translationId) to "en" yields EN entry B, then
\* resolving B (with B's own id and translationId) to "pt" yields A.
C21_RoundTrip ==
  (Resolved /\ call.targetLang = "en" /\ ret # Null) =>
    \A i \in 1..Len(blogPt) :
      CallIsFor(blogPt[i]) =>
        LET B == blogEn[FoundFor(blogEn, blogPt[i])]
        IN /\ getTranslationSlug(B.id, "pt", B.data.translationId)
                = StripMd(blogPt[i].id)
           /\ FoundFor(blogPt, B) = i

\* C22: with ids unique within each collection, two distinct entries of the
\* source language, each resolved with its own id and translationId, never
\* resolve to the same target-language entry.
C22_Injective ==
  (Resolved /\ ret # Null) =>
    LET source == CollectionOf(OtherLang(call.targetLang))
        target == CollectionOf(call.targetLang)
    IN \A i, j \in 1..Len(source) :
         (i # j /\ CallIsFor(source[i]))
           => FoundFor(target, source[j]) # FoundFor(target, source[i])

-----------------------------------------------------------------------------
(* Properties of the path helpers *)

\* C24: getLangFromUrl returns "en" exactly when the pathname equals "/en"
\* or starts with "/en/", and "pt" for every other pathname; a path whose
\* first segment merely begins with "en" is detected as "pt".
C24_LangFromPath ==
  call.fn = "getLangFromUrl" =>
    LET p == call.pathname
        english == \/ p = <<"/", "e", "n">>
                   \/ /\ Len(p) >= 4
                      /\ p[1] = "/" /\ p[2] = "e" /\ p[3] = "n" /\ p[4] = "/"
    IN /\ english => call.detected = "en"
       /\ ~english => call.detected = "pt"

\* "/ent": a Portuguese path whose first segment begins with "en"
C24_Witness ==
  /\ call.fn = "getLangFromUrl"
  /\ call.pathname = <<"/", "e", "n", "t">>
  /\ call.detected = "pt"

\* C25: for every post and language lang, getLangFromUrl applied to the
\* path getPostUrl(post, lang) returns lang, for every slug the content model
\* allows, a Portuguese entry whose slug is "en" or starts with "en/"
\* included.
C25_UrlLangRoundTrip ==
  call.fn = "getLangFromUrl" =>
    \A lang \in Lang :
      \A i \in 1..Len(CollectionOf(lang)) :
        call.pathname = getPostUrl(CollectionOf(lang)[i], lang)
          => call.detected = lang

\* C26: for both languages, getLocalizedPath("", lang) and
\* getLocalizedPath("/", lang) equal getHomePath(lang),
\* getLocalizedPath("search", lang) and getLocalizedPath("/search", lang)
\* equal getSearchPath(lang), and the English results do not end in a slash.
C26_PathHelpersAgree ==
  call.fn = "getLocalizedPath" =>
    /\ call.path \in {<<>>, <<"/">>} => ret = getHomePath(call.lang)
    /\ call.path \in {Search, <<"/">> \o Search}
         => ret = getSearchPath(call.lang)
    /\ (call.lang = "en"
          /\ call.path \in {<<>>, <<"/">>, Search, <<"/">> \o Search})
         => ret[Len(ret)] # "/"

\* the English home: getLocalizedPath("/", "en") is "/en"
C26_Witness ==
  /\ call.fn = "getLocalizedPath"
  /\ call.path = <<"/">>
  /\ call.lang = "en"
  /\ ret = <<"/", "e", "n">>

-----------------------------------------------------------------------------
(* Properties of the page head *)

\* C27: a post page whose resolved alternate slug is null emits no hreflang
\* alternate for the other language; a post page with a non-null alternate
\* slug s emits the other language's alternate as site + "en/" + s (English)
\* or site + s (Portuguese); no alternate link has an empty href.
C27_HreflangOfPostPage ==
  Rendered =>
    LET other == IF call.targetLang = "en" THEN {"en"} ELSE {"pt-BR", "x-default"}
        links == {l \in hreflang : l.hreflang \in other}
    IN /\ ret = Null => links = {}
       /\ ret # Null =>
            /\ links # {}
            /\ \A l \in links :
                 l.href = (IF call.targetLang = "en"
                           THEN SiteBase \o <<"e", "n", "/">> \o ret
                           ELSE SiteBase \o ret)
       /\ \A l \in hreflang : l.href # <<>>

\* a Portuguese post page without counterpart: only its own two links
C27_Witness ==
  /\ Rendered
  /\ call.lang = "pt"
  /\ ret = Null
  /\ Cardinality(hreflang) = 2
  /\ \A l \in hreflang : l.hreflang \in {"pt-BR", "x-default"}

-----------------------------------------------------------------------------
(* Properties of the switcher on static pages *)

\* the home and search pages of both languages
StaticPagePaths ==
  {<<"/">>, <<"/">> \o Search, <<"/", "e", "n">>,
   <<"/", "e", "n", "/">> \o Search}

\* C28: with no translation slug the switcher maps the Portuguese path "/"
\* to "/en" and any other Portuguese path p to "/en" + p, and an English path
\* to the path with its leading "/en" removed ("/en" to "/"); switching twice
\* from "/", "/search", "/en" or "/en/search" returns to the starting path,
\* and each path linked on the way is detected as the other language.
C28_StaticSwitchRoundTrip ==
  call.fn = "RenderStaticPage" =>
    LET p == call.currentPath
    IN /\ call.lang = "pt" =>
            href = (IF p = <<"/">> THEN <<"/", "e", "n">>
                    ELSE <<"/", "e", "n">> \o p)
       /\ call.lang = "en" =>
            href = (IF p = <<"/", "e", "n">> THEN <<"/">>
                    ELSE SubSeq(p, 4, Len(p)))
       /\ call.cameFrom \in StaticPagePaths => href = call.cameFrom
       /\ (p \in StaticPagePaths \/ call.cameFrom \in StaticPagePaths)
            => getLangFromUrl(href) # call.lang

\* from "/search" to "/en/search", whose switcher links back to "/search"
C28_Witness ==
  /\ call.fn = "RenderStaticPage"
  /\ call.cameFrom = <<"/">> \o Search
  /\ call.currentPath = <<"/", "e", "n", "/">> \o Search
  /\ href = <<"/">> \o Search

-----------------------------------------------------------------------------
(* Properties of previous/next navigation *)

\* C29: the post pages of a language are generated for exactly its
\* non-draft entries sorted by descending pubDate; the entry at index i gets
\* prevPost = entry i+1 (next older) and nextPost = entry i-1 (next newer), so
\* B is A's prevPost exactly when A is B's nextPost, the newest entry has no
\* nextPost, the oldest has no prevPost, and a draft is never anyone's
\* prevPost or nextPost.
C29_PrevNext ==
  call.fn = "getStaticPaths" =>
    LET posts == CollectionOf(call.lang)
        published == {i \in 1..Len(posts) : ~posts[i].data.draft}
        n == Len(listed)
    IN /\ n = Cardinality(published)
       /\ \A i \in published :
            \E k \in 1..n : listed[k].props.entry = posts[i]
       /\ \A k \in 1..(n - 1) :
            listed[k].props.entry.data.pubDate
              >= listed[k + 1].props.entry.data.pubDate
       /\ \A k \in 1..n :
            /\ listed[k].props.prevPost =
                 (IF k < n THEN <<listed[k + 1].props.entry>> ELSE <<>>)
            /\ listed[k].props.nextPost =
                 (IF k > 1 THEN <<listed[k - 1].props.entry>> ELSE <<>>)
            /\ \A e \in {listed[k].props.prevPost[x] :
                            x \in 1..Len(listed[k].props.prevPost)}
                       \cup {listed[k].props.nextPost[x] :
                               x \in 1..Len(listed[k].props.nextPost)} :
                 ~e.data.draft
       /\ \A j, k \in 1..n :
            listed[j].props.prevPost = <<listed[k].props.entry>>
              <=> listed[k].props.nextPost = <<listed[j].props.entry>>
       /\ n > 0 => /\ listed[1].props.nextPost = <<>>
                   /\ listed[n].props.prevPost = <<>>

\* three published posts stored oldest first: the page in the middle has an
\* older prevPost and a newer nextPost
C29_Witness ==
  /\ call.fn = "getStaticPaths"
  /\ Len(listed) = 3
  /\ listed[1].props.entry = CollectionOf(call.lang)[3]
  /\ listed[2].props.prevPost = <<listed[3].props.entry>>
  /\ listed[2].props.nextPost = <<listed[1].props.entry>>
  /\ listed[1].props.entry.data.pubDate > listed[3].props.entry.data.pubDate

====
